---- MODULE Spec2Model ----
(***************************************************************************)
(* A model of crater's Game Gear emulation core: the paging MMU of         *)
(* src/src/mmu.c, the host loop of src/src/emulator.c, which drives the    *)
(* Machine declared in src/src/gamegear.h, and the legacy host loop of     *)
(* src/src/iomanager.c.                                                    *)
(***************************************************************************)
EXTENDS Integers, Naturals, Sequences, FiniteSets, TLC

(***************************************************************************)
(* Program constants.                                                      *)
(***************************************************************************)
MMU_NUM_SLOTS == 3
MMU_NUM_ROM_BANKS == 64
MMU_ROM_BANK_SIZE == 16384
MMU_SYSTEM_RAM_SIZE == 8192

(***************************************************************************)
(* Bounds of the model.                                                    *)
(***************************************************************************)
\* largest bank count of an image loaded in the MMU specification
MaxBanks == 3
\* number of calls made on the MMU after mmu_init
MaxCalls == 3
\* number of loads made by the load specification
MaxLoads == 1
\* bank counts above MMU_NUM_ROM_BANKS tried by the load specification
MaxExtraBanks == 2
\* the per-frame budget of T-states (3,579,545 / 60 in the program), scaled
\* down by a thousand
FrameBudget == 59

\* conversion to uint16_t
U16(x) == x % 65536

\* x & 0x3F
And3F(x) == x % 64

(***************************************************************************)
(* Pointers into ROM images.  A pointer is the image it points into and    *)
(* the byte offset from the start of that image; NULL is the null pointer. *)
(***************************************************************************)
NULL == [img |-> 0, off |-> 0]

\* the ROM images (data pointers) handed to mmu_load_rom
ImageIds == {1, 2}

\* The byte the image holds at an offset: every image, every bank of an
\* image and every offset within a bank is told apart.
ImageByte(img, off) ==
    (17 * img + 29 * (off \div MMU_ROM_BANK_SIZE) + 3 * (off % MMU_ROM_BANK_SIZE)) % 256

\* data + n
PtrAdd(data, n) == [img |-> data, off |-> n]

VARIABLES
    mmu,      \* the MMU struct: system_ram, map_slots, rom_banks
    rom,      \* the image and size of the last load that filled the bank table
    reloaded, \* a load has replaced the bank table under a mapped slot
    call,     \* the last call made on the MMU, with its arguments and result
    ncalls    \* the number of calls made so far

mmuvars == <<mmu, rom, reloaded, call, ncalls>>

VARIABLES
    hpc,       \* where emulate() is, gamegear_simulate() included
    emu_gg,    \* the file-scope Machine pointer emu.gg: "NULL" or "gg"
    machine,   \* the Machine object: "none", "live" or "destroyed"
    handler,   \* the SIGINT disposition: "SIG_DFL" or "handle_sigint"
    powered,   \* the Machine's powered flag
    exception, \* whether the Machine's exception buffer holds a message
    cycles,    \* T-states accumulated in the current frame
    report,    \* what emulate() reported: "none", "exception" or "signal"
    off_req,   \* when power_off was first requested: "none", "early" (before
               \* simulate powered the Machine on), "running" or "late"
    since_off, \* T-states executed since that request
    caught_signal  \* the flag of iomanager.c set by its SIGINT handler

hostvars == <<hpc, emu_gg, machine, handler, powered, exception, cycles, report,
              off_req, since_off, caught_signal>>

vars == <<mmuvars, hostvars>>

NoRom == [data |-> 0, size |-> 0]

\* Values an uninitialised byte of cr_malloc'ed memory may hold
UninitBytes == {0, 170}

Call(op, addr, value, ret) == [op |-> op, addr |-> addr, value |-> value, ret |-> ret]

(***************************************************************************)
(* system_ram: MMU_SYSTEM_RAM_SIZE bytes.  The array is held as the byte   *)
(* it was last filled with and the cells stored since that differ from it. *)
(***************************************************************************)
RamIndex == 0..(MMU_SYSTEM_RAM_SIZE - 1)

\* memset(system_ram, fill, MMU_SYSTEM_RAM_SIZE), and the contents of freshly
\* allocated memory
memset(fill) == [fill |-> fill, cells |-> <<>>]

\* system_ram[i]
RamGet(ram, i) ==
    IF i \in DOMAIN ram.cells THEN ram.cells[i] ELSE ram.fill

\* system_ram[i] = value
RamSet(ram, i, value) ==
    LET keep == (DOMAIN ram.cells) \ {i}
        dom == IF value = ram.fill THEN keep ELSE keep \cup {i}
    IN [ram EXCEPT !.cells = [j \in dom |-> IF j = i THEN value ELSE ram.cells[j]]]

(***************************************************************************)
(* mmu_init                                                                *)
(***************************************************************************)
mmu_init(fill) ==
    [system_ram |-> memset(fill),
     map_slots  |-> [slot \in 0..(MMU_NUM_SLOTS - 1) |-> NULL],
     rom_banks  |-> [bank \in 0..(MMU_NUM_ROM_BANKS - 1) |-> NULL]]

(***************************************************************************)
(* mmu_load_rom                                                            *)
(***************************************************************************)
\* the inner loop with the bound mirror + banks <= MMU_NUM_ROM_BANKS
MirrorLoop_ShortBound(bank, banks, mirror) ==
    mirror >= bank /\ mirror + banks <= MMU_NUM_ROM_BANKS /\ (mirror - bank) % banks = 0

\* whether the inner loop of a bank,
\* for (mirror = bank; mirror < MMU_NUM_ROM_BANKS; mirror += banks),
\* which visits bank, bank + banks, bank + 2 * banks, ..., reaches an entry
MirrorLoop(bank, banks, mirror) ==
    mirror >= bank /\ mirror < MMU_NUM_ROM_BANKS /\ (mirror - bank) % banks = 0

\* the banks whose inner loop assigns an entry, in the outer loop
\* for (bank = 0; bank < banks; bank++)
BankLoop(mirror, banks) ==
    {bank \in 0..(banks - 1) : MirrorLoop(bank, banks, mirror)}

Max(S) == CHOOSE x \in S : \A y \in S : y <= x

\* the bank table after the loops: an entry holds what the last bank to
\* assign it stored, and keeps its value when no bank assigns it
LoadBanks(rb, data, banks) ==
    [mirror \in 0..(MMU_NUM_ROM_BANKS - 1) |->
        LET assigning == BankLoop(mirror, banks)
        IN IF assigning = {}
           THEN rb[mirror]
           ELSE PtrAdd(data, Max(assigning) * MMU_ROM_BANK_SIZE)]

Min(a, b) == IF a < b THEN a ELSE b

\* the load without the test of the size: a partial last bank is dropped
mmu_load_rom_NoSizeCheck(m, data, size) ==
    LET banks == Min(size \div MMU_ROM_BANK_SIZE, MMU_NUM_ROM_BANKS)
    IN [m EXCEPT !.rom_banks = LoadBanks(m.rom_banks, data, banks)]

mmu_load_rom(m, data, size) ==
    IF size % MMU_ROM_BANK_SIZE # 0
    THEN m
    ELSE LET banks == Min(size \div MMU_ROM_BANK_SIZE, MMU_NUM_ROM_BANKS)
         IN [m EXCEPT !.rom_banks = LoadBanks(m.rom_banks, data, banks)]

\* The image the bank table refers to after mmu_load_rom(data, size): a load
\* that assigns no bank leaves the earlier image in place.
Loaded(r, data, size) ==
    IF size % MMU_ROM_BANK_SIZE = 0 /\ size >= MMU_ROM_BANK_SIZE
    THEN [data |-> data, size |-> size]
    ELSE r

\* mmu_load_rom "will still work if called while the system is running, but
\* it will likely cause unexpected behavior": a load that fills the bank
\* table while a slot is mapped leaves that slot on the bank it had.
Reloaded(m, before, size) ==
    IF size % MMU_ROM_BANK_SIZE = 0 /\ size >= MMU_ROM_BANK_SIZE
    THEN before \/ (\E slot \in 0..(MMU_NUM_SLOTS - 1) : m.map_slots[slot] # NULL)
    ELSE before

(***************************************************************************)
(* map_slot, mmu_power                                                     *)
(***************************************************************************)
map_slot(m, slot, bank) ==
    [m EXCEPT !.map_slots[slot] = m.rom_banks[bank]]

\* the loop mapping every slot to bank 0
PowerLoop_Bank0(m, slot) ==
    [m EXCEPT !.map_slots = [k \in 0..(MMU_NUM_SLOTS - 1) |->
                                IF k >= slot THEN m.rom_banks[0] ELSE m.map_slots[k]]]

RECURSIVE PowerLoop(_, _)
PowerLoop(m, slot) ==
    IF slot < MMU_NUM_SLOTS
    THEN PowerLoop(map_slot(m, slot, slot), slot + 1)
    ELSE m

mmu_power(m) ==
    [PowerLoop(m, 0) EXCEPT !.system_ram = memset(255)]

(***************************************************************************)
(* Reads                                                                   *)
(***************************************************************************)
bank_byte_read(bank, addr) ==
    IF bank # NULL THEN ImageByte(bank.img, bank.off + addr) ELSE 255

\* the read without the mirror of system RAM: 0xE000-0xFFFF reads as unmapped
mmu_read_byte_NoMirror(m, addr) ==
    IF addr < 1024 THEN bank_byte_read(m.rom_banks[0], addr)
    ELSE IF addr < 16384 THEN bank_byte_read(m.map_slots[0], addr)
    ELSE IF addr < 32768 THEN bank_byte_read(m.map_slots[1], addr - 16384)
    ELSE IF addr < 49152 THEN bank_byte_read(m.map_slots[2], addr - 32768)
    ELSE IF addr < 57344 THEN RamGet(m.system_ram, addr - 49152)
    ELSE 255

\* the read without the unpaged first kilobyte
mmu_read_byte_PagedHeader(m, addr) ==
    IF addr < 16384 THEN bank_byte_read(m.map_slots[0], addr)
    ELSE IF addr < 32768 THEN bank_byte_read(m.map_slots[1], addr - 16384)
    ELSE IF addr < 49152 THEN bank_byte_read(m.map_slots[2], addr - 32768)
    ELSE IF addr < 57344 THEN RamGet(m.system_ram, addr - 49152)
    ELSE RamGet(m.system_ram, addr - 57344)

mmu_read_byte(m, addr) ==
    IF addr < 1024 THEN bank_byte_read(m.rom_banks[0], addr)
    ELSE IF addr < 16384 THEN bank_byte_read(m.map_slots[0], addr)
    ELSE IF addr < 32768 THEN bank_byte_read(m.map_slots[1], addr - 16384)
    ELSE IF addr < 49152 THEN bank_byte_read(m.map_slots[2], addr - 32768)
    ELSE IF addr < 57344 THEN RamGet(m.system_ram, addr - 49152)
    ELSE RamGet(m.system_ram, addr - 57344)

\* the word read with the bytes in big-endian order
mmu_read_double_BigEndian(m, addr) ==
    U16(mmu_read_byte(m, addr) * 256 + mmu_read_byte(m, U16(addr + 1)))

mmu_read_double(m, addr) ==
    U16(mmu_read_byte(m, addr) + mmu_read_byte(m, U16(addr + 1)) * 256)

\* int is 32 bits wide
INT_MAX == 2147483647

\* E1 << E2 on an int E1 >= 0 (a promoted uint8_t): the value E1 * 2^E2 when
\* int can hold it.  Otherwise the behaviour is undefined: a build either
\* leaves the bits of the shift in the int, which is then negative, or
\* traps on the overflow.
ShiftLeft(e1, e2) ==
    LET top == INT_MAX \div (2 ^ e2)
    IN IF e1 <= top
       THEN {[trap |-> FALSE, value |-> e1 * (2 ^ e2)]}
       ELSE {[trap |-> FALSE, value |-> (e1 - 2 * (top + 1)) * (2 ^ e2)],
             [trap |-> TRUE, value |-> 0]}

\* the conversion of an int to uint32_t, as its two 16-bit halves
ToUint32(x) == [hi |-> (x \div 65536) % 65536, lo |-> x % 65536]

\* mmu_read_quad: the outcomes of the call, a returned uint32_t or a trap
mmu_read_quad(m, addr) ==
    {[trap |-> s1.trap \/ s2.trap \/ s3.trap,
      value |-> IF s1.trap \/ s2.trap \/ s3.trap
                THEN ToUint32(0)
                ELSE ToUint32(mmu_read_byte(m, addr) + s1.value + s2.value + s3.value)] :
        s1 \in ShiftLeft(mmu_read_byte(m, U16(addr + 1)), 8),
        s2 \in ShiftLeft(mmu_read_byte(m, U16(addr + 2)), 16),
        s3 \in ShiftLeft(mmu_read_byte(m, U16(addr + 3)), 24)}

(***************************************************************************)
(* Writes                                                                  *)
(***************************************************************************)
Result(m, ret) == [mmu |-> m, ret |-> ret]

\* the write with the control registers of slots 1 and 2 exchanged
mmu_write_byte_SwappedSlots(m, addr, value) ==
    IF addr < 49152 THEN Result(m, FALSE)
    ELSE IF addr < 57344
    THEN Result([m EXCEPT !.system_ram = RamSet(m.system_ram, addr - 49152, value)], TRUE)
    ELSE LET paged ==
               IF addr = 65532 THEN m
               ELSE IF addr = 65533 THEN map_slot(m, 0, And3F(value))
               ELSE IF addr = 65534 THEN map_slot(m, 2, And3F(value))
               ELSE IF addr = 65535 THEN map_slot(m, 1, And3F(value))
               ELSE m
         IN Result([paged EXCEPT !.system_ram = RamSet(paged.system_ram, addr - 57344, value)], TRUE)

\* the write with the read-only region ending one address late (addr <= 0xC000)
mmu_write_byte_OffByOne(m, addr, value) ==
    IF addr <= 49152 THEN Result(m, FALSE)
    ELSE IF addr < 57344
    THEN Result([m EXCEPT !.system_ram = RamSet(m.system_ram, addr - 49152, value)], TRUE)
    ELSE LET paged ==
               IF addr = 65532 THEN m
               ELSE IF addr = 65533 THEN map_slot(m, 0, And3F(value))
               ELSE IF addr = 65534 THEN map_slot(m, 1, And3F(value))
               ELSE IF addr = 65535 THEN map_slot(m, 2, And3F(value))
               ELSE m
         IN Result([paged EXCEPT !.system_ram = RamSet(paged.system_ram, addr - 57344, value)], TRUE)

\* the write whose paging branch returns before the store into system RAM
mmu_write_byte_NoStore(m, addr, value) ==
    IF addr < 49152 THEN Result(m, FALSE)
    ELSE IF addr < 57344
    THEN Result([m EXCEPT !.system_ram = RamSet(m.system_ram, addr - 49152, value)], TRUE)
    ELSE IF addr = 65533 THEN Result(map_slot(m, 0, And3F(value)), TRUE)
    ELSE IF addr = 65534 THEN Result(map_slot(m, 1, And3F(value)), TRUE)
    ELSE IF addr = 65535 THEN Result(map_slot(m, 2, And3F(value)), TRUE)
    ELSE Result([m EXCEPT !.system_ram = RamSet(m.system_ram, addr - 57344, value)], TRUE)

\* the write with the paging registers one address early: 0xFFFC maps slot 0
mmu_write_byte_ShiftedRegs(m, addr, value) ==
    IF addr < 49152 THEN Result(m, FALSE)
    ELSE IF addr < 57344
    THEN Result([m EXCEPT !.system_ram = RamSet(m.system_ram, addr - 49152, value)], TRUE)
    ELSE LET paged ==
               IF addr = 65532 THEN map_slot(m, 0, And3F(value))
               ELSE IF addr = 65533 THEN map_slot(m, 1, And3F(value))
               ELSE IF addr = 65534 THEN map_slot(m, 2, And3F(value))
               ELSE m
         IN Result([paged EXCEPT !.system_ram = RamSet(paged.system_ram, addr - 57344, value)], TRUE)

mmu_write_byte(m, addr, value) ==
    IF addr < 49152 THEN Result(m, FALSE)
    ELSE IF addr < 57344
    THEN Result([m EXCEPT !.system_ram = RamSet(m.system_ram, addr - 49152, value)], TRUE)
    ELSE LET paged ==
               IF addr = 65532 THEN m
               ELSE IF addr = 65533 THEN map_slot(m, 0, And3F(value))
               ELSE IF addr = 65534 THEN map_slot(m, 1, And3F(value))
               ELSE IF addr = 65535 THEN map_slot(m, 2, And3F(value))
               ELSE m
         IN Result([paged EXCEPT !.system_ram = RamSet(paged.system_ram, addr - 57344, value)], TRUE)

\* the word write returning b1 || b2
mmu_write_double_Or(m, addr, value) ==
    LET b1 == mmu_write_byte(m, addr, value % 256)
        b2 == mmu_write_byte(b1.mmu, U16(addr + 1), value \div 256)
    IN Result(b2.mmu, b1.ret \/ b2.ret)

\* the word write giving up after a refused low byte:
\* if (!mmu_write_byte(mmu, addr, value & 0xFF)) return false;
mmu_write_double_ShortCircuit(m, addr, value) ==
    LET b1 == mmu_write_byte(m, addr, value % 256)
        b2 == mmu_write_byte(b1.mmu, U16(addr + 1), value \div 256)
    IN IF b1.ret THEN Result(b2.mmu, b2.ret) ELSE Result(m, FALSE)

mmu_write_double(m, addr, value) ==
    LET b1 == mmu_write_byte(m, addr, value % 256)
        b2 == mmu_write_byte(b1.mmu, U16(addr + 1), value \div 256)
    IN Result(b2.mmu, b1.ret /\ b2.ret)

(***************************************************************************)
(* The host loop of emulator.c and the Machine it drives                   *)
(***************************************************************************)
\* T-states charged by a step of the CPU: 4 for a NOP, 19 for the
\* acknowledgement of an interrupt in mode 2
MinInstrCost == 4
MaxInstrCost == 19
InstrCosts == {MinInstrCost, MaxInstrCost}

\* the most T-states a frame can run: the budget has to be exceeded, and the
\* instruction that exceeds it completes
FrameLimit == FrameBudget + MaxInstrCost

\* since_off stops counting here
SinceCap == FrameLimit + MaxInstrCost

HostInit ==
    /\ hpc = "create"
    /\ emu_gg = "NULL"
    /\ machine = "none"
    /\ handler = "SIG_DFL"
    /\ powered = FALSE
    /\ exception = FALSE
    /\ cycles = 0
    /\ report = "none"
    /\ off_req = "none"
    /\ since_off = 0
    /\ caught_signal = FALSE

\* the phase of emulate() a power-off request falls in
OffPhase ==
    IF hpc \in {"setup", "simulate"} THEN "early"
    ELSE IF hpc \in {"sim_loop", "sim_frame", "sim_callback"} THEN "running"
    ELSE "late"

\* the first power-off request is remembered
Requested == IF off_req = "none" THEN OffPhase ELSE off_req

\* gamegear_power_off(gg)
gamegear_power_off(p) == FALSE

\* the handler with its test inverted: if (!emu.gg)
handle_sigint_Inverted(gg, p) ==
    IF gg = "NULL" THEN gamegear_power_off(p) ELSE p

\* handle_sigint: the powered flag after the handler has run
handle_sigint(gg, p) ==
    IF gg # "NULL" THEN gamegear_power_off(p) ELSE p

\* handle_events: the powered flag after the event queue has been polled,
\* quit telling whether it held an SDL_QUIT event
handle_events(quit, p) ==
    IF quit THEN gamegear_power_off(p) ELSE p

\* the report with its test inverted: if (!gamegear_get_exception(emu.gg))
Reported_Inverted(exc) == IF exc THEN "signal" ELSE "exception"

\* the message emulate() logs when gamegear_simulate() has returned
Reported(exc) == IF exc THEN "exception" ELSE "signal"

(***************************************************************************)
(* Inputs of the MMU specification                                         *)
(***************************************************************************)
\* sizes that are not a multiple of the bank size
BadSizes == {MMU_ROM_BANK_SIZE \div 2, MMU_ROM_BANK_SIZE + 1}

\* sizes handed to mmu_load_rom: empty, whole banks, and a bank and a byte
LoadSizes == {n * MMU_ROM_BANK_SIZE : n \in 0..MaxBanks} \cup {MMU_ROM_BANK_SIZE + 1}

\* sizes handed to mmu_load_rom by the load specification: every bank count
\* up to 64, and some above it
AllSizes ==
    {n * MMU_ROM_BANK_SIZE : n \in 0..(MMU_NUM_ROM_BANKS + MaxExtraBanks)} \cup BadSizes

\* addresses written: the end of the fixed header, the end of the ROM region,
\* both ends of system RAM, and the four control registers in its mirror
WriteAddrs == {1023, 49151, 49152, 57343, 65532, 65533, 65534, 65535}

\* values written: 0x02 selects bank 2, 0x7F selects bank 0x3F
WriteValues == {2, 127}

\* words written by mmu_write_double (0x7F02) and the addresses they are
\* written to: 0x3FFF, 0xBFFF, 0xDFFF, 0xFFFD and 0xFFFF
WordAddrs == {16383, 49151, 57343, 65533, 65535}
WordValues == {32514}

(***************************************************************************)
(* The MMU as a state machine: one action per entry point of mmu.c         *)
(***************************************************************************)
MMUInit ==
    /\ \E fill \in UninitBytes : mmu = mmu_init(fill)
    /\ rom = NoRom
    /\ reloaded = FALSE
    /\ call = Call("init", 0, 0, TRUE)
    /\ ncalls = 0

Init == MMUInit /\ HostInit

\* one more call is made
Counted ==
    /\ ncalls < MaxCalls
    /\ ncalls' = ncalls + 1

DoInit ==
    /\ Counted
    /\ \E fill \in UninitBytes : mmu' = mmu_init(fill)
    /\ rom' = NoRom
    /\ reloaded' = FALSE
    /\ call' = Call("init", 0, 0, TRUE)
    /\ UNCHANGED hostvars

LoadRom(data, size) ==
    /\ mmu' = mmu_load_rom(mmu, data, size)
    /\ rom' = Loaded(rom, data, size)
    /\ reloaded' = Reloaded(mmu, reloaded, size)
    /\ call' = Call("load_rom", data, size, TRUE)

DoLoadRom ==
    /\ Counted
    /\ \E data \in ImageIds, size \in LoadSizes : LoadRom(data, size)
    /\ UNCHANGED hostvars

DoPower ==
    /\ Counted
    /\ mmu' = mmu_power(mmu)
    /\ reloaded' = FALSE
    /\ call' = Call("power", 0, 0, TRUE)
    /\ UNCHANGED rom
    /\ UNCHANGED hostvars

DoWriteByte ==
    /\ Counted
    /\ \E addr \in WriteAddrs, value \in WriteValues :
        LET r == mmu_write_byte(mmu, addr, value)
        IN /\ mmu' = r.mmu
           /\ call' = Call("write_byte", addr, value, r.ret)
    /\ UNCHANGED <<rom, reloaded>>
    /\ UNCHANGED hostvars

DoWriteDouble ==
    /\ Counted
    /\ \E addr \in WordAddrs, value \in WordValues :
        LET r == mmu_write_double(mmu, addr, value)
        IN /\ mmu' = r.mmu
           /\ call' = Call("write_double", addr, value, r.ret)
    /\ UNCHANGED <<rom, reloaded>>
    /\ UNCHANGED hostvars

Next ==
    \/ DoInit
    \/ DoLoadRom
    \/ DoPower
    \/ DoWriteByte
    \/ DoWriteDouble

Spec == Init /\ [][Next]_vars

(***************************************************************************)
(* The read specification: the calls of the MMU specification, and         *)
(* mmu_read_quad.                                                          *)
(***************************************************************************)
\* addresses of the double words read: 0x3FFD spans slots 0 and 1, 0xBFFD
\* ends in system RAM, 0xDFFC is the end of system RAM and 0xFFFD wraps to
\* the fixed header
QuadAddrs == {16381, 49149, 57340, 65533}

\* a trap ends the process: no call follows it
DoReadQuad ==
    /\ ncalls < MaxCalls
    /\ \E addr \in QuadAddrs :
        \E r \in mmu_read_quad(mmu, addr) :
            /\ call' = Call("read_quad", addr, r.value, ~r.trap)
            /\ ncalls' = IF r.trap THEN MaxCalls ELSE ncalls + 1
    /\ UNCHANGED <<mmu, rom, reloaded>>
    /\ UNCHANGED hostvars

NextRead ==
    \/ DoInit
    \/ DoLoadRom
    \/ DoPower
    \/ DoWriteByte
    \/ DoWriteDouble
    \/ DoReadQuad

SpecRead == Init /\ [][NextRead]_vars

(***************************************************************************)
(* The load specification: images of every size are loaded into an        *)
(* initialised MMU.                                                        *)
(***************************************************************************)
DoLoadAnyRom ==
    /\ ncalls < MaxLoads
    /\ ncalls' = ncalls + 1
    /\ \E data \in ImageIds, size \in AllSizes : LoadRom(data, size)
    /\ UNCHANGED hostvars

NextLoad == DoLoadAnyRom

SpecLoad == Init /\ [][NextLoad]_vars

(***************************************************************************)
(* The host specification: emulate() of emulator.c runs from               *)
(* gamegear_create() to the reset of emu.gg, gamegear_simulate() runs      *)
(* frames in between, and SIGINT arrives at any moment.                    *)
(***************************************************************************)
\* the image emulate() is given
HostRomSize == MaxBanks * MMU_ROM_BANK_SIZE

\* emu.gg = gamegear_create()
emulate_create ==
    /\ hpc = "create"
    /\ hpc' = "install"
    /\ emu_gg' = "gg"
    /\ machine' = "live"
    /\ powered' = FALSE
    /\ exception' = FALSE
    /\ \E fill \in UninitBytes : mmu' = mmu_init(fill)
    /\ UNCHANGED <<rom, reloaded, call, ncalls>>
    /\ UNCHANGED <<handler, cycles, report, off_req, since_off>>
    /\ UNCHANGED caught_signal

\* signal(SIGINT, handle_sigint)
emulate_signal ==
    /\ hpc = "install"
    /\ hpc' = "setup"
    /\ handler' = "handle_sigint"
    /\ UNCHANGED mmuvars
    /\ UNCHANGED <<emu_gg, machine, powered, exception, cycles, report, off_req, since_off>>
    /\ UNCHANGED caught_signal

\* setup_graphics(), gamegear_attach_*(), gamegear_load(emu.gg, rom)
emulate_load ==
    /\ hpc = "setup"
    /\ hpc' = "simulate"
    /\ mmu' = mmu_load_rom(mmu, 1, HostRomSize)
    /\ rom' = Loaded(rom, 1, HostRomSize)
    /\ reloaded' = Reloaded(mmu, reloaded, HostRomSize)
    /\ UNCHANGED <<call, ncalls>>
    /\ UNCHANGED <<emu_gg, machine, handler, powered, exception, cycles, report,
                   off_req, since_off>>
    /\ UNCHANGED caught_signal

\* gamegear_simulate(): the Machine is powered on
simulate_power_on ==
    /\ hpc = "simulate"
    /\ hpc' = "sim_loop"
    /\ powered' = TRUE
    /\ exception' = FALSE
    /\ cycles' = 0
    /\ mmu' = mmu_power(mmu)
    /\ reloaded' = FALSE
    /\ UNCHANGED <<rom, call, ncalls>>
    /\ UNCHANGED <<emu_gg, machine, handler, report, off_req, since_off>>
    /\ UNCHANGED caught_signal

\* gamegear_simulate(): the powered flag is read at the frame boundary
simulate_loop ==
    /\ hpc = "sim_loop"
    /\ hpc' = IF powered THEN "sim_frame" ELSE "report"
    /\ UNCHANGED mmuvars
    /\ UNCHANGED <<emu_gg, machine, handler, powered, exception, cycles, report,
                   off_req, since_off>>
    /\ UNCHANGED caught_signal

\* T-states counted against a pending power-off request
Elapsed(cost) ==
    IF off_req \in {"early", "running"}
    THEN Min(since_off + cost, SinceCap)
    ELSE since_off

\* gamegear_simulate(): the CPU executes an instruction; the frame ends when
\* the accumulated T-states exceed the budget
simulate_step ==
    /\ hpc = "sim_frame"
    /\ \E cost \in InstrCosts :
        /\ cycles' = IF cycles + cost > FrameBudget THEN 0 ELSE cycles + cost
        /\ hpc' = IF cycles + cost > FrameBudget THEN "sim_callback" ELSE "sim_frame"
        /\ since_off' = Elapsed(cost)
    /\ UNCHANGED mmuvars
    /\ UNCHANGED <<emu_gg, machine, handler, powered, exception, report, off_req>>
    /\ UNCHANGED caught_signal

\* gamegear_simulate(): the CPU surfaces an exception and simulate returns
simulate_exception ==
    /\ hpc = "sim_frame"
    /\ hpc' = "report"
    /\ exception' = TRUE
    /\ UNCHANGED mmuvars
    /\ UNCHANGED <<emu_gg, machine, handler, powered, cycles, report, off_req, since_off>>
    /\ UNCHANGED caught_signal

\* frame_callback: draw_frame(), then handle_events()
frame_callback ==
    /\ hpc = "sim_callback"
    /\ hpc' = "sim_loop"
    /\ \E quit \in BOOLEAN :
        /\ powered' = handle_events(quit, powered)
        /\ off_req' = IF quit THEN Requested ELSE off_req
    /\ UNCHANGED mmuvars
    /\ UNCHANGED <<emu_gg, machine, handler, exception, cycles, report, since_off>>
    /\ UNCHANGED caught_signal

\* if (gamegear_get_exception(emu.gg)) ERROR(...) else WARN(...)
emulate_report ==
    /\ hpc = "report"
    /\ hpc' = "cleanup"
    /\ report' = Reported(exception)
    /\ UNCHANGED mmuvars
    /\ UNCHANGED <<emu_gg, machine, handler, powered, exception, cycles, off_req, since_off>>
    /\ UNCHANGED caught_signal

\* cleanup_graphics()
emulate_cleanup ==
    /\ hpc = "cleanup"
    /\ hpc' = "restore"
    /\ UNCHANGED mmuvars
    /\ UNCHANGED <<emu_gg, machine, handler, powered, exception, cycles, report,
                   off_req, since_off>>
    /\ UNCHANGED caught_signal

\* emulate() without its signal(SIGINT, SIG_DFL): the handler stays installed
emulate_restore_Forgotten ==
    /\ hpc = "restore"
    /\ hpc' = "destroy"
    /\ UNCHANGED mmuvars
    /\ UNCHANGED <<emu_gg, machine, handler, powered, exception, cycles, report,
                   off_req, since_off>>
    /\ UNCHANGED caught_signal

\* signal(SIGINT, SIG_DFL)
emulate_restore ==
    /\ hpc = "restore"
    /\ hpc' = "destroy"
    /\ handler' = "SIG_DFL"
    /\ UNCHANGED mmuvars
    /\ UNCHANGED <<emu_gg, machine, powered, exception, cycles, report, off_req, since_off>>
    /\ UNCHANGED caught_signal

\* gamegear_destroy(emu.gg)
emulate_destroy ==
    /\ hpc = "destroy"
    /\ hpc' = "clear"
    /\ machine' = "destroyed"
    /\ UNCHANGED mmuvars
    /\ UNCHANGED <<emu_gg, handler, powered, exception, cycles, report, off_req, since_off>>
    /\ UNCHANGED caught_signal

\* emu.gg = NULL
emulate_clear ==
    /\ hpc = "clear"
    /\ hpc' = "done"
    /\ emu_gg' = "NULL"
    /\ UNCHANGED mmuvars
    /\ UNCHANGED <<machine, handler, powered, exception, cycles, report, off_req, since_off>>
    /\ UNCHANGED caught_signal

\* SIGINT arrives while handle_sigint is installed
sigint_handled ==
    /\ hpc \notin {"done", "killed"}
    /\ handler = "handle_sigint"
    /\ powered' = handle_sigint(emu_gg, powered)
    /\ off_req' = Requested
    /\ UNCHANGED mmuvars
    /\ UNCHANGED <<hpc, emu_gg, machine, handler, exception, cycles, report, since_off>>
    /\ UNCHANGED caught_signal

\* SIGINT arrives under the default disposition: the process is terminated
sigint_default ==
    /\ hpc \notin {"done", "killed"}
    /\ handler = "SIG_DFL"
    /\ hpc' = "killed"
    /\ UNCHANGED mmuvars
    /\ UNCHANGED <<emu_gg, machine, handler, powered, exception, cycles, report,
                   off_req, since_off>>
    /\ UNCHANGED caught_signal

NextHost ==
    \/ emulate_create
    \/ emulate_signal
    \/ emulate_load
    \/ simulate_power_on
    \/ simulate_loop
    \/ simulate_step
    \/ simulate_exception
    \/ frame_callback
    \/ emulate_report
    \/ emulate_cleanup
    \/ emulate_restore
    \/ emulate_destroy
    \/ emulate_clear
    \/ sigint_handled
    \/ sigint_default

SpecHost == Init /\ [][NextHost]_vars

(***************************************************************************)
(* The access specification: an image is loaded or not, the MMU is powered *)
(* on, and one byte is read or written at any address.  The operators      *)
(* below give the array elements the entry points index.                   *)
(***************************************************************************)
\* an element of rom_banks[entry], of map_slots[entry] or of system_ram
Access(table, entry, index) == [table |-> table, entry |-> entry, index |-> index]

\* mmu_read_byte with the slot 1 and slot 2 offsets not rebased:
\* bank_byte_read(mmu->map_slots[1], addr)
ReadAccess_NoRebase(addr) ==
    IF addr < 1024 THEN Access("rom_banks", 0, addr)
    ELSE IF addr < 16384 THEN Access("map_slots", 0, addr)
    ELSE IF addr < 32768 THEN Access("map_slots", 1, addr)
    ELSE IF addr < 49152 THEN Access("map_slots", 2, addr)
    ELSE IF addr < 57344 THEN Access("system_ram", 0, addr - 49152)
    ELSE Access("system_ram", 0, addr - 57344)

\* the element mmu_read_byte(mmu, addr) reads
ReadAccess(addr) ==
    IF addr < 1024 THEN Access("rom_banks", 0, addr)
    ELSE IF addr < 16384 THEN Access("map_slots", 0, addr)
    ELSE IF addr < 32768 THEN Access("map_slots", 1, addr - 16384)
    ELSE IF addr < 49152 THEN Access("map_slots", 2, addr - 32768)
    ELSE IF addr < 57344 THEN Access("system_ram", 0, addr - 49152)
    ELSE Access("system_ram", 0, addr - 57344)

\* the system RAM indices mmu_write_byte(mmu, addr, value) stores to
WriteIndex(addr) ==
    IF addr < 49152 THEN {}
    ELSE IF addr < 57344 THEN {addr - 49152}
    ELSE {addr - 57344}

\* the calls map_slot(mmu, slot, bank) of mmu_write_byte(mmu, addr, value)
WriteMapSlot(addr, value) ==
    IF addr = 65533 THEN {<<0, And3F(value)>>}
    ELSE IF addr = 65534 THEN {<<1, And3F(value)>>}
    ELSE IF addr = 65535 THEN {<<2, And3F(value)>>}
    ELSE {}

\* the calls map_slot(mmu, slot, slot) of the loop of mmu_power
PowerMapSlot == {<<slot, slot>> : slot \in 0..(MMU_NUM_SLOTS - 1)}

\* every 16-bit address; a write of 0xFF at each of them, and a write of
\* every 8-bit value at the control registers
AccessAddrs == 0..65535
AccessValues(addr) == IF addr >= 65532 THEN 0..255 ELSE {255}

AccessLoad ==
    /\ call.op = "init"
    /\ LoadRom(1, HostRomSize)
    /\ UNCHANGED ncalls
    /\ UNCHANGED hostvars

AccessPower ==
    /\ call.op \in {"init", "load_rom"}
    /\ mmu' = mmu_power(mmu)
    /\ reloaded' = FALSE
    /\ call' = Call("power", 0, 0, TRUE)
    /\ UNCHANGED <<rom, ncalls>>
    /\ UNCHANGED hostvars

AccessRead ==
    /\ call.op = "power"
    /\ \E addr \in AccessAddrs :
        call' = Call("read_byte", addr, mmu_read_byte(mmu, addr), TRUE)
    /\ UNCHANGED <<mmu, rom, reloaded, ncalls>>
    /\ UNCHANGED hostvars

AccessWrite ==
    /\ call.op = "power"
    /\ \E addr \in AccessAddrs :
        \E value \in AccessValues(addr) :
            LET r == mmu_write_byte(mmu, addr, value)
            IN /\ mmu' = r.mmu
               /\ call' = Call("write_byte", addr, value, r.ret)
    /\ UNCHANGED <<rom, reloaded, ncalls>>
    /\ UNCHANGED hostvars

NextAccess ==
    \/ AccessLoad
    \/ AccessPower
    \/ AccessRead
    \/ AccessWrite

SpecAccess == Init /\ [][NextAccess]_vars

(***************************************************************************)
(* The legacy host loop: iomanager_emulate() of iomanager.c runs from the  *)
(* reset of caught_signal to the restoring of SIG_DFL on a Machine its     *)
(* caller created, gamegear_simulate() runs one frame per call, and SIGINT *)
(* arrives at any moment.                                                  *)
(***************************************************************************)
\* the flag is whatever an earlier call of iomanager_emulate() left in it
LegacyInit ==
    /\ hpc = "l_reset"
    /\ emu_gg = "NULL"
    /\ machine = "live"
    /\ handler = "SIG_DFL"
    /\ powered = FALSE
    /\ exception = FALSE
    /\ cycles = 0
    /\ report = "none"
    /\ off_req = "none"
    /\ since_off = 0
    /\ caught_signal \in BOOLEAN

InitLegacy == MMUInit /\ LegacyInit

\* handle_sigint of iomanager.c: caught_signal = true
iomanager_handle_sigint(caught) == TRUE

\* the loop test that reads nothing: while (true)
LoopTest_Always(caught) == TRUE

\* while (!caught_signal)
LoopTest(caught) == ~caught

\* caught_signal = false
iomanager_reset ==
    /\ hpc = "l_reset"
    /\ hpc' = "l_install"
    /\ caught_signal' = FALSE
    /\ UNCHANGED mmuvars
    /\ UNCHANGED <<emu_gg, machine, handler, powered, exception, cycles, report,
                   off_req, since_off>>

\* signal(SIGINT, handle_sigint)
iomanager_signal ==
    /\ hpc = "l_install"
    /\ hpc' = "l_power_on"
    /\ handler' = "handle_sigint"
    /\ UNCHANGED mmuvars
    /\ UNCHANGED <<emu_gg, machine, powered, exception, cycles, report,
                   off_req, since_off, caught_signal>>

\* gamegear_power(gg, true)
iomanager_power_on ==
    /\ hpc = "l_power_on"
    /\ hpc' = "l_head"
    /\ powered' = TRUE
    /\ exception' = FALSE
    /\ cycles' = 0
    /\ mmu' = mmu_power(mmu)
    /\ reloaded' = FALSE
    /\ UNCHANGED <<rom, call, ncalls>>
    /\ UNCHANGED <<emu_gg, machine, handler, report, off_req, since_off, caught_signal>>

\* while (!caught_signal)
iomanager_loop ==
    /\ hpc = "l_head"
    /\ hpc' = IF LoopTest(caught_signal) THEN "l_simulate" ELSE "l_after"
    /\ UNCHANGED mmuvars
    /\ UNCHANGED <<emu_gg, machine, handler, powered, exception, cycles, report,
                   off_req, since_off, caught_signal>>

\* gamegear_simulate(gg): the CPU executes an instruction; the call returns
\* false when the T-states of the frame exceed the budget
legacy_simulate_step ==
    /\ hpc = "l_simulate"
    /\ \E cost \in InstrCosts :
        /\ cycles' = IF cycles + cost > FrameBudget THEN 0 ELSE cycles + cost
        /\ hpc' = IF cycles + cost > FrameBudget THEN "l_sleep" ELSE "l_simulate"
    /\ UNCHANGED mmuvars
    /\ UNCHANGED <<emu_gg, machine, handler, powered, exception, report,
                   off_req, since_off, caught_signal>>

\* gamegear_simulate(gg): the CPU surfaces an exception and the call returns
\* true
legacy_simulate_exception ==
    /\ hpc = "l_simulate"
    /\ hpc' = "l_error"
    /\ exception' = TRUE
    /\ UNCHANGED mmuvars
    /\ UNCHANGED <<emu_gg, machine, handler, powered, cycles, report,
                   off_req, since_off, caught_signal>>

\* ERROR("caught exception: %s", ...); break
iomanager_error ==
    /\ hpc = "l_error"
    /\ hpc' = "l_after"
    /\ report' = "exception"
    /\ UNCHANGED mmuvars
    /\ UNCHANGED <<emu_gg, machine, handler, powered, exception, cycles,
                   off_req, since_off, caught_signal>>

\* usleep(1000 * 1000 / 60)
iomanager_usleep ==
    /\ hpc = "l_sleep"
    /\ hpc' = "l_head"
    /\ UNCHANGED mmuvars
    /\ UNCHANGED <<emu_gg, machine, handler, powered, exception, cycles, report,
                   off_req, since_off, caught_signal>>

\* if (caught_signal) WARN("caught signal, stopping...")
iomanager_warn ==
    /\ hpc = "l_after"
    /\ hpc' = "l_power_off"
    /\ report' = IF caught_signal THEN "signal" ELSE report
    /\ UNCHANGED mmuvars
    /\ UNCHANGED <<emu_gg, machine, handler, powered, exception, cycles,
                   off_req, since_off, caught_signal>>

\* gamegear_power(gg, false)
iomanager_power_off ==
    /\ hpc = "l_power_off"
    /\ hpc' = "l_restore"
    /\ powered' = FALSE
    /\ UNCHANGED mmuvars
    /\ UNCHANGED <<emu_gg, machine, handler, exception, cycles, report,
                   off_req, since_off, caught_signal>>

\* signal(SIGINT, SIG_DFL), and the return
iomanager_restore ==
    /\ hpc = "l_restore"
    /\ hpc' = "l_done"
    /\ handler' = "SIG_DFL"
    /\ UNCHANGED mmuvars
    /\ UNCHANGED <<emu_gg, machine, powered, exception, cycles, report,
                   off_req, since_off, caught_signal>>

\* the steps of iomanager_emulate() and of the calls it makes
iomanager_emulate ==
    \/ iomanager_reset
    \/ iomanager_signal
    \/ iomanager_power_on
    \/ iomanager_loop
    \/ legacy_simulate_step
    \/ legacy_simulate_exception
    \/ iomanager_error
    \/ iomanager_usleep
    \/ iomanager_warn
    \/ iomanager_power_off
    \/ iomanager_restore

\* SIGINT arrives while handle_sigint of iomanager.c is installed
legacy_sigint_handled ==
    /\ hpc \notin {"l_done", "killed"}
    /\ handler = "handle_sigint"
    /\ caught_signal' = iomanager_handle_sigint(caught_signal)
    /\ UNCHANGED mmuvars
    /\ UNCHANGED <<hpc, emu_gg, machine, handler, powered, exception, cycles, report,
                   off_req, since_off>>

\* SIGINT arrives under the default disposition: the process is terminated
legacy_sigint_default ==
    /\ hpc \notin {"l_done", "killed"}
    /\ handler = "SIG_DFL"
    /\ hpc' = "killed"
    /\ UNCHANGED mmuvars
    /\ UNCHANGED <<emu_gg, machine, handler, powered, exception, cycles, report,
                   off_req, since_off, caught_signal>>

NextLegacy ==
    \/ iomanager_reset
    \/ iomanager_signal
    \/ iomanager_power_on
    \/ iomanager_loop
    \/ legacy_simulate_step
    \/ legacy_simulate_exception
    \/ iomanager_error
    \/ iomanager_usleep
    \/ iomanager_warn
    \/ iomanager_power_off
    \/ iomanager_restore
    \/ legacy_sigint_handled
    \/ legacy_sigint_default

SpecLegacy == InitLegacy /\ [][NextLegacy]_vars

\* the process is scheduled: a step of iomanager_emulate() that can be
\* taken is eventually taken
SpecLegacyFair == InitLegacy /\ [][NextLegacy]_vars /\ WF_vars(iomanager_emulate)

(***************************************************************************)
(* Observations used by the properties                                     *)
(***************************************************************************)
\* number of whole banks of the loaded image
RomBanks(r) == r.size \div MMU_ROM_BANK_SIZE

\* the byte at offset off of bank number bank of the loaded image, the image
\* being repeated over the 64 bank numbers; 0xFF when no image is loaded
RomBankByte(r, bank, off) ==
    IF r = NoRom THEN 255
    ELSE ImageByte(r.data, (bank % RomBanks(r)) * MMU_ROM_BANK_SIZE + off)

\* system RAM offsets at which the properties look: both ends of every
\* 256-byte page and the cells under the control registers
RamProbes == {i \in RamIndex : i % 256 \in {0, 255}} \cup {8188, 8189, 8190}

\* offsets within a bank at which the properties look
BankProbes == {0, 1, 1023, 1024, 4660, 16382, 16383}

(***************************************************************************)
(* C1: after power-on and any sequence of byte and word writes, every      *)
(* address of system RAM (0xC000-0xDFFF) reads the same byte as the        *)
(* address 0x2000 above it.                                                *)
(***************************************************************************)
C1_RamMirror ==
    \A i \in RamProbes :
        mmu_read_byte(mmu, 49152 + i) = mmu_read_byte(mmu, 49152 + i + 8192)

\* a byte stored through the mirror after power-on is read back through both
\* windows
C1_Witness ==
    /\ call.op = "write_byte" /\ call.addr = 65532 /\ call.value = 127
    /\ mmu.system_ram.fill = 255
    /\ mmu_read_byte(mmu, 57340) = 127
    /\ mmu_read_byte(mmu, 65532) = 127

(***************************************************************************)
(* C2: right after a write of v to 0xFFFE, a read of 0x4000 returns the    *)
(* first byte of bank (v & 0x3F) of the loaded image, or 0xFF when no      *)
(* image is loaded; a write to 0xFFFD remaps slot 0 (read at 0x0400 to     *)
(* 0x3FFF) and a write to 0xFFFF remaps slot 2 (read at 0x8000 to 0xBFFF)  *)
(* in the same way.                                                        *)
(***************************************************************************)
C2_PagingNextAccess ==
    call.op = "write_byte" =>
        /\ call.addr = 65534 =>
              /\ mmu_read_byte(mmu, 16384) = RomBankByte(rom, And3F(call.value), 0)
              /\ \A off \in BankProbes :
                    mmu_read_byte(mmu, 16384 + off) = RomBankByte(rom, And3F(call.value), off)
        /\ call.addr = 65533 =>
              \A off \in BankProbes :
                  off >= 1024 =>
                      mmu_read_byte(mmu, off) = RomBankByte(rom, And3F(call.value), off)
        /\ call.addr = 65535 =>
              \A off \in BankProbes :
                  mmu_read_byte(mmu, 32768 + off) = RomBankByte(rom, And3F(call.value), off)

\* bank 2 of a three-bank image has been paged into slot 1
C2_Witness ==
    /\ call.op = "write_byte" /\ call.addr = 65534 /\ call.value = 2
    /\ rom # NoRom /\ RomBanks(rom) = 3
    /\ mmu_read_byte(mmu, 16384) = ImageByte(rom.data, 2 * MMU_ROM_BANK_SIZE)
    /\ mmu_read_byte(mmu, 16384) # ImageByte(rom.data, MMU_ROM_BANK_SIZE)

(***************************************************************************)
(* C3: every address below 0x0400 reads 0xFF when no image is loaded and   *)
(* otherwise the byte of the loaded image at that offset, whatever has     *)
(* been written, paging writes to 0xFFFD included.                         *)
(***************************************************************************)
HeaderProbes == {0, 1, 56, 102, 1022, 1023}

C3_FixedHeader ==
    \A addr \in HeaderProbes :
        mmu_read_byte(mmu, addr) =
            IF rom = NoRom THEN 255 ELSE ImageByte(rom.data, addr)

\* slot 0 has been paged away from bank 0 by a write to 0xFFFD
C3_Witness ==
    /\ call.op = "write_byte" /\ call.addr = 65533
    /\ rom # NoRom
    /\ mmu.map_slots[0] # mmu.rom_banks[0]
    /\ mmu_read_byte(mmu, 1023) = ImageByte(rom.data, 1023)

(***************************************************************************)
(* C4: a byte write below 0xC000 returns false and changes neither system  *)
(* RAM, the bank table, the slot table nor the loaded image; a byte write  *)
(* at or above 0xC000 returns true.                                        *)
(***************************************************************************)
C4_WriteDenied ==
    [][(call'.op = "write_byte" /\ ncalls' = ncalls + 1) =>
          IF call'.addr < 49152
          THEN call'.ret = FALSE /\ mmu' = mmu /\ rom' = rom
          ELSE call'.ret = TRUE]_vars

\* a write into slot 2 of a powered MMU with an image loaded was refused
C4_Witness ==
    /\ call.op = "write_byte" /\ call.addr = 49151 /\ call.ret = FALSE
    /\ rom # NoRom
    /\ mmu.map_slots[2] # NULL

(***************************************************************************)
(* C5: after a load of an image of 1 to 64 whole banks, entry i of the     *)
(* bank table references image offset (i mod banks) * 16 KiB, for every    *)
(* i below 64 and every bank count, powers of two or not.                  *)
(***************************************************************************)
C5_BankMirroring ==
    (/\ call.op = "load_rom"
     /\ call.value % MMU_ROM_BANK_SIZE = 0
     /\ call.value \div MMU_ROM_BANK_SIZE \in 1..MMU_NUM_ROM_BANKS) =>
        \A i \in 0..(MMU_NUM_ROM_BANKS - 1) :
            mmu.rom_banks[i] =
                [img |-> call.addr,
                 off |-> (i % (call.value \div MMU_ROM_BANK_SIZE)) * MMU_ROM_BANK_SIZE]

\* an image of five banks is loaded: entry 63 holds bank 3, entry 5 bank 0
C5_Witness ==
    /\ call.op = "load_rom"
    /\ call.value = 5 * MMU_ROM_BANK_SIZE
    /\ mmu.rom_banks[63] = [img |-> call.addr, off |-> 3 * MMU_ROM_BANK_SIZE]
    /\ mmu.rom_banks[4] = [img |-> call.addr, off |-> 4 * MMU_ROM_BANK_SIZE]
    /\ mmu.rom_banks[5] = [img |-> call.addr, off |-> 0]

(***************************************************************************)
(* C6: each of the three slots is unmapped or references a bank that lies  *)
(* within the loaded image.  As claimed, this holds in every reachable     *)
(* state, a second load of another image after power-on included.          *)
(***************************************************************************)
InRom(ptr, r) ==
    /\ r # NoRom
    /\ ptr.img = r.data
    /\ ptr.off % MMU_ROM_BANK_SIZE = 0
    /\ ptr.off < r.size

SlotsValid ==
    \A slot \in 0..(MMU_NUM_SLOTS - 1) :
        mmu.map_slots[slot] = NULL \/ InRom(mmu.map_slots[slot], rom)

C6_SlotValidity_AsClaimed == SlotsValid

\* C6, amended: the slots are valid in every state in which no load has
\* replaced the bank table under a mapped slot since the last power-on or
\* initialisation.
C6_SlotValidity == ~reloaded => SlotsValid

\* a paging write has mapped slot 1 to the last bank of the loaded image
C6_Witness ==
    /\ ~reloaded
    /\ call.op = "write_byte" /\ call.addr = 65534
    /\ RomBanks(rom) = MaxBanks
    /\ mmu.map_slots[1] = [img |-> rom.data, off |-> 2 * MMU_ROM_BANK_SIZE]
    /\ mmu.map_slots[0] # NULL

RomProbes ==
    {base + off : base \in {0, 16384, 32768}, off \in BankProbes}

C8_PowerOn ==
    call.op = "power" =>
        /\ \A k \in 0..2 : mmu.map_slots[k] = mmu.rom_banks[k]
        /\ \A k \in 0..2 :
              mmu.map_slots[k] =
                  IF rom = NoRom THEN NULL
                  ELSE [img |-> rom.data, off |-> (k % RomBanks(rom)) * MMU_ROM_BANK_SIZE]
        /\ \A i \in RamIndex : mmu_read_byte(mmu, 49152 + i) = 255
        /\ rom = NoRom =>
              /\ \A k \in 0..2 : mmu.map_slots[k] = NULL
              /\ \A addr \in RomProbes : mmu_read_byte(mmu, addr) = 255

\* power-on of an MMU that holds an image, after two earlier calls
C8_Witness ==
    /\ call.op = "power"
    /\ ncalls >= 3
    /\ rom # NoRom /\ RomBanks(rom) >= 2
    /\ mmu.map_slots[1] = [img |-> rom.data, off |-> MMU_ROM_BANK_SIZE]
    /\ mmu_read_byte(mmu, 65535) = 255

(***************************************************************************)
(* C9: a word read is the byte at the address plus 256 times the byte at   *)
(* the next address modulo 2^16; at 0xFFFF the second byte comes from      *)
(* 0x0000, and across a region boundary each byte comes from its own       *)
(* region.                                                                 *)
(***************************************************************************)
WordProbes == {0, 1023, 1024, 16383, 32767, 49151, 49152, 57343, 65532, 65533, 65534, 65535}

C9_ReadWord ==
    /\ \A addr \in WordProbes :
          mmu_read_double(mmu, addr) =
              mmu_read_byte(mmu, addr) + 256 * mmu_read_byte(mmu, (addr + 1) % 65536)
    /\ mmu_read_double(mmu, 65535) =
          RamGet(mmu.system_ram, 8191) + 256 * bank_byte_read(mmu.rom_banks[0], 0)
    /\ mmu_read_double(mmu, 1023) =
          bank_byte_read(mmu.rom_banks[0], 1023) + 256 * bank_byte_read(mmu.map_slots[0], 1024)
    /\ mmu_read_double(mmu, 16383) =
          bank_byte_read(mmu.map_slots[0], 16383) + 256 * bank_byte_read(mmu.map_slots[1], 0)
    /\ mmu_read_double(mmu, 32767) =
          bank_byte_read(mmu.map_slots[1], 16383) + 256 * bank_byte_read(mmu.map_slots[2], 0)
    /\ mmu_read_double(mmu, 49151) =
          bank_byte_read(mmu.map_slots[2], 16383) + 256 * RamGet(mmu.system_ram, 0)
    /\ mmu_read_double(mmu, 57343) =
          RamGet(mmu.system_ram, 8191) + 256 * RamGet(mmu.system_ram, 0)

\* the two bytes of the word at 0x3FFF come from different banks, and the
\* word at 0xFFFF joins a written RAM byte and the first byte of the image
C9_Witness ==
    /\ rom # NoRom
    /\ mmu.map_slots[0] # NULL /\ mmu.map_slots[1] # NULL
    /\ mmu.map_slots[0] # mmu.map_slots[1]
    /\ RamGet(mmu.system_ram, 8191) = 127
    /\ mmu_read_double(mmu, 65535) = 127 + 256 * ImageByte(rom.data, 0)
    /\ mmu_read_double(mmu, 16383) =
          ImageByte(rom.data, 16383) + 256 * ImageByte(rom.data, MMU_ROM_BANK_SIZE)

(***************************************************************************)
(* C10: a word write is the byte write of the low byte at the address      *)
(* followed by the byte write of the high byte at the next address modulo  *)
(* 2^16, and returns true exactly when both byte writes return true.       *)
(***************************************************************************)
C10_WriteWord ==
    [][(call'.op = "write_double" /\ ncalls' = ncalls + 1) =>
          LET addr == call'.addr
              next == (addr + 1) % 65536
              lo == call'.value % 256
              hi == call'.value \div 256
              b1 == mmu_write_byte(mmu, addr, lo)
              b2 == mmu_write_byte(b1.mmu, next, hi)
          IN /\ mmu' = b2.mmu
             /\ call'.ret = (b1.ret /\ b2.ret)
             /\ call'.ret = (addr >= 49152 /\ next >= 49152)
             /\ addr >= 49152 => mmu_read_byte(mmu', addr) = lo
             /\ next >= 49152 => mmu_read_byte(mmu', next) = hi]_vars

\* the word written at 0xBFFF: the low byte was refused, the high byte is in
\* RAM at 0xC000, and the call returned false
C10_Witness ==
    /\ call.op = "write_double" /\ call.addr = 49151 /\ call.ret = FALSE
    /\ mmu_read_byte(mmu, 49152) = call.value \div 256
    /\ mmu.system_ram.fill = 255

(***************************************************************************)
(* C11: a load whose size is not a multiple of the bank size does nothing: *)
(* the bank table, the slot table and system RAM are what they were before *)
(* the call, whether or not an image had been loaded before.               *)
(***************************************************************************)
C11_BadSizeNoOp ==
    [][(call'.op = "load_rom" /\ ncalls' = ncalls + 1
            /\ call'.value % MMU_ROM_BANK_SIZE # 0) =>
          /\ mmu'.rom_banks = mmu.rom_banks
          /\ mmu'.map_slots = mmu.map_slots
          /\ mmu'.system_ram = mmu.system_ram
          /\ rom' = rom /\ reloaded' = reloaded]_vars

\* a load of 16 KiB + 1 bytes made after an image was loaded and its banks
\* were mapped into the slots
C11_Witness ==
    /\ call.op = "load_rom" /\ call.value = MMU_ROM_BANK_SIZE + 1
    /\ rom # NoRom /\ rom.data # call.addr
    /\ mmu.map_slots[1] # NULL
    /\ mmu.rom_banks[0].img = rom.data /\ mmu.rom_banks[63].img = rom.data

(***************************************************************************)
(* C12: one byte write to a paging register 0xFFFD, 0xFFFE or 0xFFFF both  *)
(* stores the value in RAM, where it is read back at the register's        *)
(* address and 0x2000 below it, and maps the register's slot to the bank   *)
(* value & 0x3F; the same write made again changes nothing.                *)
(***************************************************************************)
C12_PagingWrite ==
    [][(call'.op = "write_byte" /\ ncalls' = ncalls + 1 /\ call'.addr >= 65533) =>
          LET addr == call'.addr
              value == call'.value
              slot == addr - 65533
          IN /\ call'.ret = TRUE
             /\ mmu_read_byte(mmu', addr) = value
             /\ mmu_read_byte(mmu', addr - 8192) = value
             /\ RamGet(mmu'.system_ram, addr - 57344) = value
             /\ mmu'.map_slots[slot] = mmu.rom_banks[And3F(value)]
             /\ \A other \in (0..(MMU_NUM_SLOTS - 1)) \ {slot} :
                    mmu'.map_slots[other] = mmu.map_slots[other]
             /\ mmu'.rom_banks = mmu.rom_banks
             /\ (call.op = "write_byte" /\ call.addr = addr /\ call.value = value)
                    => mmu' = mmu
             /\ mmu_write_byte(mmu', addr, value) = Result(mmu', TRUE)]_vars

\* 0x7F written to 0xFFFF of a powered MMU with an image loaded: 0xDFFF reads
\* 0x7F and slot 2 is bank 0x3F
C12_Witness ==
    /\ call.op = "write_byte" /\ call.addr = 65535 /\ call.value = 127
    /\ rom # NoRom /\ mmu.system_ram.fill = 255
    /\ mmu_read_byte(mmu, 57343) = 127
    /\ mmu.map_slots[2] = mmu.rom_banks[63] /\ mmu.map_slots[2] # NULL
    /\ mmu.map_slots[1] # mmu.map_slots[2]

(***************************************************************************)
(* C13: a byte write to 0xFFFC returns true, stores the value at RAM       *)
(* offset 0x1FFC and leaves the three slots and the bank table as they     *)
(* were; every byte write to an address in 0xC000..0xFFFC leaves the slot  *)
(* table as it was.                                                        *)
(***************************************************************************)
C13_RamControlBenign ==
    [][(call'.op = "write_byte" /\ ncalls' = ncalls + 1
            /\ call'.addr >= 49152 /\ call'.addr <= 65532) =>
          /\ mmu'.map_slots = mmu.map_slots
          /\ call'.addr = 65532 =>
                /\ call'.ret = TRUE
                /\ RamGet(mmu'.system_ram, 8188) = call'.value
                /\ mmu'.system_ram = RamSet(mmu.system_ram, 8188, call'.value)
                /\ mmu'.rom_banks = mmu.rom_banks]_vars

\* 0x02 written to 0xFFFC while the slots hold banks 0, 1 and 2 of a loaded
\* image: the byte is in RAM and no slot holds another bank than before
C13_Witness ==
    /\ call.op = "write_byte" /\ call.addr = 65532 /\ call.value = 2
    /\ call.ret = TRUE
    /\ rom # NoRom
    /\ \A slot \in 0..(MMU_NUM_SLOTS - 1) :
          mmu.map_slots[slot] # NULL /\ mmu.map_slots[slot] = mmu.rom_banks[slot]
    /\ mmu.map_slots[0] # mmu.rom_banks[2]
    /\ mmu_read_byte(mmu, 65532) = 2 /\ mmu_read_byte(mmu, 57340) = 2

\* the positions of emulate() after its report: cleanup_graphics(), the
\* restoring of SIG_DFL, gamegear_destroy(), the reset of emu.gg, the return
TeardownSteps == {"cleanup", "restore", "destroy", "clear", "done"}

(***************************************************************************)
(* C14: once gamegear_simulate() has returned, emulate() reports an        *)
(* exception exactly when the Machine holds one and reports the normal     *)
(* cancellation otherwise, which happens only after a SIGINT or a quit     *)
(* event asked for the power-off; in both cases emulate() has gone on to   *)
(* its teardown, and no teardown step is made without the report.          *)
(***************************************************************************)
C14_ReportOnReturn ==
    /\ report # "none" =>
          /\ report = "exception" <=> exception
          /\ report = "signal" <=> ~exception
          /\ report = "signal" => (off_req # "none" /\ ~powered)
          /\ hpc \in TeardownSteps \cup {"killed"}
    /\ hpc \in TeardownSteps => report # "none"
    /\ hpc = "done" =>
          handler = "SIG_DFL" /\ machine = "destroyed" /\ emu_gg = "NULL"

\* emulate() has finished after an exception that was raised while a
\* power-off request was pending: the exception is what was reported
C14_Witness ==
    /\ hpc = "done"
    /\ report = "exception" /\ exception
    /\ off_req = "running"
    /\ machine = "destroyed"

(***************************************************************************)
(* C15: mmu_read_quad returns, as an unsigned 32-bit value, the sum        *)
(* b0 + b1 * 2^8 + b2 * 2^16 + b3 * 2^24 of the bytes read at addr,        *)
(* addr + 1, addr + 2 and addr + 3 modulo 2^16, whatever the bytes are and *)
(* in particular when b3 >= 0x80.  The value is compared as its two 16-bit *)
(* halves b0 + b1 * 2^8 and b2 + b3 * 2^8.                                 *)
(***************************************************************************)
C15_ReadQuad ==
    call.op = "read_quad" =>
        /\ call.ret = TRUE
        /\ call.value.lo = mmu_read_byte(mmu, call.addr)
                             + 256 * mmu_read_byte(mmu, U16(call.addr + 1))
        /\ call.value.hi = mmu_read_byte(mmu, U16(call.addr + 2))
                             + 256 * mmu_read_byte(mmu, U16(call.addr + 3))

(***************************************************************************)
(* C16: however the deliveries of SIGINT interleave with emulate(), the    *)
(* handler runs, and calls gamegear_power_off, only while emu.gg points to *)
(* a Machine that has been created and not destroyed: handle_sigint is the *)
(* disposition only between gamegear_create() and the restoring of         *)
(* SIG_DFL, which precedes gamegear_destroy(), and the handler leaves the  *)
(* powered flag alone when emu.gg is null.                                 *)
(***************************************************************************)
C16_HandlerTarget ==
    /\ [](/\ handler = "handle_sigint" => (emu_gg = "gg" /\ machine = "live")
          /\ machine \in {"none", "destroyed"} => handler = "SIG_DFL"
          /\ \A p \in BOOLEAN : handle_sigint("NULL", p) = p)
    /\ [][sigint_handled =>
            (machine = "live" /\ emu_gg = "gg" /\ machine' = "live" /\ ~powered')]_vars
    /\ [][(powered /\ ~powered') => machine = "live"]_vars

\* SIGINT was handled in the middle of a frame: the Machine it powered off
\* is live and simulate has not yet seen the flag
C16_Witness ==
    /\ hpc = "sim_frame" /\ cycles > 0
    /\ off_req = "running" /\ ~powered
    /\ handler = "handle_sigint" /\ emu_gg = "gg" /\ machine = "live"

(***************************************************************************)
(* C17: for every 16-bit address and every 8-bit value, the entry points   *)
(* index their arrays in bounds: system RAM at an index in 0..0x1FFF, a    *)
(* bank at an offset in 0..0x3FFF, the bank table at an index in 0..63 and *)
(* the slot table at an index in 0..2.  The elements are the ones the call *)
(* read or wrote.                                                          *)
(***************************************************************************)
C17_InBounds ==
    /\ call.op = "read_byte" =>
          LET a == ReadAccess(call.addr)
          IN /\ a.table = "system_ram" =>
                    /\ a.index \in RamIndex
                    /\ call.value = RamGet(mmu.system_ram, a.index)
             /\ a.table = "rom_banks" =>
                    /\ a.entry \in 0..(MMU_NUM_ROM_BANKS - 1)
                    /\ a.index \in 0..(MMU_ROM_BANK_SIZE - 1)
                    /\ call.value = bank_byte_read(mmu.rom_banks[a.entry], a.index)
                    /\ mmu.rom_banks[a.entry] # NULL =>
                          mmu.rom_banks[a.entry].off + a.index < rom.size
             /\ a.table = "map_slots" =>
                    /\ a.entry \in 0..(MMU_NUM_SLOTS - 1)
                    /\ a.index \in 0..(MMU_ROM_BANK_SIZE - 1)
                    /\ call.value = bank_byte_read(mmu.map_slots[a.entry], a.index)
                    /\ mmu.map_slots[a.entry] # NULL =>
                          mmu.map_slots[a.entry].off + a.index < rom.size
    /\ call.op = "write_byte" =>
          /\ call.ret = (WriteIndex(call.addr) # {})
          /\ \A i \in WriteIndex(call.addr) :
                i \in RamIndex /\ RamGet(mmu.system_ram, i) = call.value
          /\ \A sb \in WriteMapSlot(call.addr, call.value) :
                /\ sb[1] \in 0..(MMU_NUM_SLOTS - 1)
                /\ sb[2] \in 0..(MMU_NUM_ROM_BANKS - 1)
                /\ mmu.map_slots[sb[1]] = mmu.rom_banks[sb[2]]
    /\ call.op = "power" =>
          \A sb \in PowerMapSlot :
                /\ sb[1] \in 0..(MMU_NUM_SLOTS - 1)
                /\ sb[2] \in 0..(MMU_NUM_ROM_BANKS - 1)
                /\ mmu.map_slots[sb[1]] = mmu.rom_banks[sb[2]]

\* 0xFF written to 0xFFFF: the store is at the last index of system RAM and
\* slot 2, the last slot, is mapped to bank 63, the last bank
C17_Witness ==
    /\ call.op = "write_byte" /\ call.addr = 65535 /\ call.value = 255
    /\ WriteIndex(call.addr) = {MMU_SYSTEM_RAM_SIZE - 1}
    /\ WriteMapSlot(call.addr, call.value) = {<<MMU_NUM_SLOTS - 1, MMU_NUM_ROM_BANKS - 1>>}
    /\ mmu.map_slots[2] = mmu.rom_banks[63] /\ mmu.map_slots[2] # NULL
    /\ ReadAccess(49151) = Access("map_slots", 2, MMU_ROM_BANK_SIZE - 1)

(***************************************************************************)
(* C18, as claimed: a word write that returns false leaves system RAM, the *)
(* slot table and the bank table as they were before the call.             *)
(***************************************************************************)
C18_FailedWriteNoEffect_AsClaimed ==
    [][(call'.op = "write_double" /\ ncalls' = ncalls + 1 /\ call'.ret = FALSE) =>
          mmu' = mmu]_vars

(***************************************************************************)
(* C18: a word write that returns false has had one of its two byte writes *)
(* refused, at an address below 0xC000, and the other byte write, when its *)
(* address is at or above 0xC000, has taken effect as a byte write of its  *)
(* own: the state is the one before the call only when both addresses are  *)
(* below 0xC000.                                                           *)
(***************************************************************************)
C18_FailedWritePartial ==
    [][(call'.op = "write_double" /\ ncalls' = ncalls + 1 /\ call'.ret = FALSE) =>
          LET addr == call'.addr
              next == (addr + 1) % 65536
              lo == call'.value % 256
              hi == call'.value \div 256
          IN /\ addr < 49152 \/ next < 49152
             /\ (addr < 49152 /\ next < 49152) => mmu' = mmu
             /\ (addr < 49152 /\ next >= 49152) =>
                    /\ mmu' = mmu_write_byte(mmu, next, hi).mmu
                    /\ mmu_read_byte(mmu', next) = hi
             /\ (addr >= 49152 /\ next < 49152) =>
                    /\ mmu' = mmu_write_byte(mmu, addr, lo).mmu
                    /\ mmu_read_byte(mmu', addr) = lo
                    /\ \A sb \in WriteMapSlot(addr, lo) :
                          mmu'.map_slots[sb[1]] = mmu.rom_banks[sb[2]]
             /\ mmu'.rom_banks = mmu.rom_banks
             /\ rom' = rom]_vars

\* the word 0x7F02 written at 0xFFFF of a powered MMU holding an image: the
\* call returned false, and 0x02 is in RAM under 0xFFFF, which read 0xFF
\* before, and slot 2 is mapped to the bank 0x02 selects
C18_Witness ==
    /\ call.op = "write_double" /\ call.addr = 65535 /\ call.ret = FALSE
    /\ rom # NoRom /\ mmu.system_ram.fill = 255
    /\ mmu_read_byte(mmu, 65535) = call.value % 256
    /\ mmu_read_byte(mmu, 57343) # 255
    /\ mmu.map_slots[2] = mmu.rom_banks[2] /\ mmu.map_slots[2] # NULL

\* the positions of iomanager_emulate() inside its while loop, and those
\* after it
LoopSteps == {"l_head", "l_simulate", "l_error", "l_sleep"}
ExitSteps == {"l_after", "l_power_off", "l_restore", "l_done"}

====
